---- MODULE Spec2Model ----
(***************************************************************************)
(* Client-side session / token lifecycle of the SQL playground frontend:   *)
(* the axios interceptors (utils/axiosInterceptors.ts), the AuthProvider   *)
(* (contexts/AuthContext.tsx) and the parts of App.tsx that use them.      *)
(*                                                                         *)
(* JavaScript runs one task at a time.  Every action below is one task:    *)
(* the code that runs from an event (a click, a timer, a network reply)    *)
(* up to the next await.  Promise continuations released by a task are     *)
(* kept in `micro` and run, in order, before any other task.               *)
(*                                                                         *)
(* Tokens are 1..MaxTok, 0 is "absent" (null / key not stored / header     *)
(* not set).  An expires_at value is identified by the token it was        *)
(* issued for.  The user object is TheUser, 0 is null.                     *)
(***************************************************************************)
EXTENDS Integers, Sequences, FiniteSets, TLC

MaxCalls == 1      \* application calls (fetchQuestions, evaluate, ...) that can be in flight
MaxTok == 2        \* distinct tokens the backend issues
MaxEvents == 3     \* clicks and timer ticks in one run
MaxClock == 12      \* minutes the clock of the activity tracker runs
MaxInstalls == 2    \* installations of the interceptors that are told apart
MaxReplays == 2     \* replays of one call that are counted

Tokens == 1..MaxTok
TheUser == 1       \* the user object of the account that logs in
\* Interval handles.  A handle is held in at most three places: the
\* tokenCheckInterval state, the closure of a login in progress, the closure
\* of a logout in progress.
TimerIds == 1..3

\* The calls of the program.  1..MaxCalls are the application's calls
\* (App.tsx); the three below are the calls AuthContext.tsx makes.
LoginCall == 0          \* POST /login or /register, then POST /activity/record
LogoutCall == 0 - 1     \* POST /logout
CheckCall == 0 - 2      \* GET /check-token
AppCalls == 1..MaxCalls
CallIds == AppCalls \cup {LoginCall, LogoutCall, CheckCall}

VARIABLES
  lsToken,             \* localStorage 'sql-playground-token'
  lsUser,              \* localStorage 'sql-playground-user'
  lsExpires,           \* localStorage 'sql-playground-expires-at'
  lsProgress,          \* localStorage 'sql-playground-progress'
  lsUserProgress,      \* localStorage `sql-playground-progress-${user.id}`
  authHeader,          \* axios.defaults.headers.common['Authorization']
  installed,           \* setupAxiosInterceptors has run on this page
  installs,            \* how many times it has run: the handler pairs axios holds
  isRefreshing,        \* module variable of axiosInterceptors.ts
  failedQueue,         \* module variable of axiosInterceptors.ts
  calls,               \* every call's position in the interceptor's state machine
  micro,               \* promise continuations ready to run
  user, token, loading, error, isActive, tokenCheckInterval,   \* AuthProvider state
  effectDue,           \* the [startTokenMonitoring] effect has to run
  timers,              \* the setInterval timers of startTokenMonitoring some handle refers to
  leaked,              \* what the armed timers no handle refers to any more have captured
  loginPc, logoutPc,   \* where login()/register() and logout() stand
  redirecting,         \* window.location.href = '/login' was assigned
  events,              \* how many clicks and timer ticks have happened
  isInTask, taskType,  \* useActivityTracker state of the mounted MainApp
  queryPc,             \* where handleQuerySubmit stands
  trackerActive,       \* useActivityTracker: activity.isActive
  lastActivity,        \* useActivityTracker: activity.lastActivity, in minutes
  now,                 \* Date.now(), in minutes
  prevent              \* what the last call of shouldPreventExpiration returned

storage == <<lsToken, lsUser, lsExpires, lsProgress, lsUserProgress>>
coord == <<isRefreshing, failedQueue>>
react == <<user, token, loading, error, isActive, tokenCheckInterval, effectDue>>
task == <<isInTask, taskType, queryPc>>
tracker == <<trackerActive, lastActivity, now, prevent>>
session == <<lsToken, lsUser, lsExpires, lsProgress, lsUserProgress, authHeader,
             installed, installs,
             isRefreshing, failedQueue, calls, micro,
             user, token, loading, error, isActive, tokenCheckInterval,
             effectDue, timers, leaked, loginPc, logoutPc, redirecting, events>>
vars == <<session, task, tracker>>

Min2(x, y) == IF x <= y THEN x ELSE y

\* A call that is not in flight.
\*   st    : idle | sent | queued | driving | refq | settling
\*   retry : originalRequest._retry
\*   drove : the call issued a renewal request (history)
\*   icpt  : the interceptors were installed when the call was issued
\*   chain : how many response handlers its promise chain was built with
\*   replays : how many times axios(originalRequest) re-sent it (history)
\*   hdr   : the token in the Authorization header the call went out with
\*   rhdr  : while driving, the token the POST /refresh went out with
IdleCall ==
  [st |-> "idle", retry |-> FALSE, drove |-> FALSE, icpt |-> FALSE, hdr |-> 0, rhdr |-> 0,
   chain |-> 0, replays |-> 0]
NoTimer == [armed |-> FALSE, token |-> 0]
LoginIdle == [pc |-> "idle", op |-> "none", capInterval |-> 0, capToken |-> 0, capActive |-> FALSE]
LogoutIdle == [pc |-> "idle", capInterval |-> 0, capToken |-> 0]
\* handleQuerySubmit not running.
\*   pc      : idle | evaluate | progress | questions | streak (the call awaited)
\*   c       : the call slot its requests use
\*   mounted : the MainApp that runs it is still mounted
QueryIdle == [pc |-> "idle", c |-> 0, mounted |-> FALSE]

\* A continuation in the microtask queue.
\*   resolve : a queued waiter released by processQueue(null, tok)
\*   reject  : a queued waiter released by processQueue(err)
\*   settle  : the promise of call c settled with outcome err ("ok" on success),
\*             tok / usr / refreshed carrying the reply's data
Item(t, c, ref, tok, err) ==
  [t |-> t, c |-> c, ref |-> ref, tok |-> tok, err |-> err, usr |-> 0, refreshed |-> FALSE]

Settle(c, err) == Item("settle", c, FALSE, 0, err)

\* localStorage holds text.  The text of a user object is told apart from the
\* object: JSON.stringify(user) is the user's number shifted by UserText, and
\* JSON.parse gives the object back.
UserText == 100
JSONstringify(u) == UserText + u
\* JSON.parse left out: the stored text is used as the user object.
JSONparse_Raw(s) == s

JSONparse(s) == s - UserText

\* The page as the browser loads it: nothing in memory, the mount effect due;
\* localStorage empty, or holding the session an earlier visit left.
Init ==
  /\ lsToken \in {0, 1}
  /\ lsUser = (IF lsToken = 0 THEN 0 ELSE JSONstringify(TheUser))
  /\ lsExpires = lsToken
  /\ lsProgress = FALSE
  /\ lsUserProgress = FALSE
  /\ authHeader = 0
  /\ installed = FALSE
  /\ installs = 0
  /\ isRefreshing = FALSE
  /\ failedQueue = <<>>
  /\ calls = [c \in CallIds |-> IdleCall]
  /\ micro = <<>>
  /\ user = 0 /\ token = 0 /\ loading = TRUE /\ error = FALSE
  /\ isActive = TRUE /\ tokenCheckInterval = 0
  /\ effectDue = TRUE
  /\ timers = [i \in TimerIds |-> NoTimer]
  /\ leaked = {}
  /\ loginPc = LoginIdle
  /\ logoutPc = LogoutIdle
  /\ redirecting = FALSE
  /\ events = 0
  /\ isInTask = FALSE /\ taskType = "none"
  /\ queryPc = QueryIdle
  /\ trackerActive = TRUE /\ lastActivity = 0 /\ now = 0 /\ prevent = "none"

-----------------------------------------------------------------------------
(* utils/axiosInterceptors.ts *)

\* The request interceptor: the stored token, when there is one, replaces
\* whatever Authorization the request config holds (the caller's header, or
\* the default header axios merged in).
requestInterceptor(stored, hdr) == IF stored # 0 THEN stored ELSE hdr

\* The header a request leaves with: the config's header (hdr), through the
\* request interceptor when it is installed.
Outbound(icpt, stored, hdr) == IF icpt THEN requestInterceptor(stored, hdr) ELSE hdr

\* processQueue that rejects the waiters whatever the outcome, with the 401
\* they came with when there is no error.
processQueue_RejectsOnSuccess(err, tok) ==
  [i \in 1..Len(failedQueue) |->
     Item("reject", failedQueue[i].c, failedQueue[i].ref, 0,
          IF err # "none" THEN err ELSE "e401")]

\* processQueue that walks failedQueue from its last entry to its first.
processQueue_Reversed(err, tok) ==
  [i \in 1..Len(failedQueue) |->
     LET w == failedQueue[Len(failedQueue) + 1 - i] IN
     IF err # "none"
     THEN Item("reject", w.c, w.ref, 0, err)
     ELSE Item("resolve", w.c, w.ref, tok, "none")]

\* processQueue(error, token): one continuation per queued waiter, in queue
\* order; the caller empties failedQueue.
processQueue(err, tok) ==
  [i \in 1..Len(failedQueue) |->
     IF err # "none"
     THEN Item("reject", failedQueue[i].c, failedQueue[i].ref, 0, err)
     ELSE Item("resolve", failedQueue[i].c, failedQueue[i].ref, tok, "none")]

\* The catch and finally blocks of the driver c, with refreshError = err;
\* rest is what the microtask queue holds behind the running continuation.
renewalFailed(c, err, rest) ==
  /\ micro' = rest \o processQueue(err, 0) \o <<Settle(c, err)>>
  /\ failedQueue' = <<>>
  /\ lsToken' = 0 /\ lsUser' = 0 /\ lsExpires' = 0 /\ lsProgress' = FALSE
  /\ UNCHANGED lsUserProgress
  /\ redirecting' = TRUE
  /\ isRefreshing' = FALSE
  /\ calls' = [calls EXCEPT ![c].st = "settling", ![c].retry = TRUE, ![c].rhdr = 0]
  /\ UNCHANGED authHeader

\* renewalStart whose request presents the token the rejected call was sent
\* with.
renewalStart_RejectedToken(c) ==
  IF lsToken = 0
  THEN renewalFailed(c, "eNoToken", <<>>)
  ELSE /\ calls' = [calls EXCEPT ![c].st = "driving", ![c].retry = TRUE,
                                 ![c].drove = TRUE,
                                 ![c].rhdr = calls[c].hdr]
       /\ isRefreshing' = TRUE
       /\ UNCHANGED <<storage, authHeader, failedQueue, micro, redirecting>>

\* The try block of the driver c up to `await axios.post(.../refresh)`.
renewalStart(c) ==
  IF lsToken = 0
  THEN renewalFailed(c, "eNoToken", <<>>)
  ELSE /\ calls' = [calls EXCEPT ![c].st = "driving", ![c].retry = TRUE,
                                 ![c].drove = TRUE,
                                 ![c].rhdr = requestInterceptor(lsToken, lsToken)]
       /\ isRefreshing' = TRUE
       /\ UNCHANGED <<storage, authHeader, failedQueue, micro, redirecting>>

\* responseInterceptor without the `if (isRefreshing)` branch: every 401
\* starts a renewal of its own.
responseInterceptor_NoSingleFlight(c, status) ==
  IF status = "e401" /\ calls[c].icpt /\ ~calls[c].retry
  THEN renewalStart(c)
  ELSE /\ micro' = <<Settle(c, status)>>
       /\ calls' = [calls EXCEPT ![c].st = "settling"]
       /\ UNCHANGED <<storage, authHeader, coord, redirecting>>

\* responseInterceptor whose `if (isRefreshing)` branch hands the 401 back
\* to the caller instead of parking the call.
responseInterceptor_NoQueue(c, status) ==
  IF status = "e401" /\ calls[c].icpt /\ ~calls[c].retry /\ ~isRefreshing
  THEN renewalStart(c)
  ELSE /\ micro' = <<Settle(c, status)>>
       /\ calls' = [calls EXCEPT ![c].st = "settling"]
       /\ UNCHANGED <<storage, authHeader, coord, redirecting>>

\* responseInterceptor that renews for every error, whatever its status.
responseInterceptor_AnyError(c, status) ==
  IF calls[c].icpt /\ ~calls[c].retry
  THEN IF isRefreshing
       THEN /\ failedQueue' = Append(failedQueue, [c |-> c, ref |-> FALSE])
            /\ calls' = [calls EXCEPT ![c].st = "queued"]
            /\ UNCHANGED <<storage, authHeader, isRefreshing, micro, redirecting>>
       ELSE renewalStart(c)
  ELSE /\ micro' = <<Settle(c, status)>>
       /\ calls' = [calls EXCEPT ![c].st = "settling"]
       /\ UNCHANGED <<storage, authHeader, coord, redirecting>>

\* The error handler of the response interceptor, up to its first await, for
\* call c whose reply is the error `status` (e401: HTTP 401; eNet: anything
\* else, a network failure included).
responseInterceptor(c, status) ==
  IF status = "e401" /\ calls[c].icpt /\ ~calls[c].retry
  THEN IF isRefreshing
       THEN /\ failedQueue' = Append(failedQueue, [c |-> c, ref |-> FALSE])
            /\ calls' = [calls EXCEPT ![c].st = "queued"]
            /\ UNCHANGED <<storage, authHeader, isRefreshing, micro, redirecting>>
       ELSE renewalStart(c)
  ELSE /\ micro' = <<Settle(c, status)>>
       /\ calls' = [calls EXCEPT ![c].st = "settling"]
       /\ UNCHANGED <<storage, authHeader, coord, redirecting>>

\* renewalSucceeded that stores the new token and not its expiry.
renewalSucceeded_TokenOnly(c, tok) ==
  /\ lsToken' = tok
  /\ authHeader' = tok
  /\ micro' = processQueue("none", tok)
  /\ failedQueue' = <<>>
  /\ calls' = [calls EXCEPT ![c].st = "sent", ![c].rhdr = 0,
                            ![c].chain = installs,
                            ![c].replays = Min2(@ + 1, MaxReplays),
                            ![c].hdr = requestInterceptor(tok, tok)]
  /\ isRefreshing' = FALSE
  /\ UNCHANGED <<lsUser, lsExpires, lsProgress, lsUserProgress, redirecting>>

\* renewalSucceeded that replays the driver's call without the _retry mark.
renewalSucceeded_ForgetsRetry(c, tok) ==
  /\ lsToken' = tok
  /\ lsExpires' = tok
  /\ authHeader' = tok
  /\ micro' = processQueue("none", tok)
  /\ failedQueue' = <<>>
  /\ calls' = [calls EXCEPT ![c].st = "sent", ![c].rhdr = 0,
                            ![c].chain = installs,
                            ![c].replays = Min2(@ + 1, MaxReplays), ![c].retry = FALSE,
                            ![c].hdr = requestInterceptor(tok, tok)]
  /\ isRefreshing' = FALSE
  /\ UNCHANGED <<lsUser, lsProgress, lsUserProgress, redirecting>>

\* renewalSucceeded without the `finally`: the flag is left set when the
\* queue is released.
renewalSucceeded_KeepsFlag(c, tok) ==
  /\ lsToken' = tok
  /\ lsExpires' = tok
  /\ authHeader' = tok
  /\ micro' = processQueue("none", tok)
  /\ failedQueue' = <<>>
  /\ calls' = [calls EXCEPT ![c].st = "sent", ![c].rhdr = 0,
                            ![c].chain = installs,
                            ![c].replays = Min2(@ + 1, MaxReplays),
                            ![c].hdr = requestInterceptor(tok, tok)]
  /\ UNCHANGED isRefreshing
  /\ UNCHANGED <<lsUser, lsProgress, lsUserProgress, redirecting>>

\* The driver c after `await axios.post(.../refresh)` returned {token: tok,
\* expires_at}: store, set the default header, release the queue, replay.
renewalSucceeded(c, tok) ==
  /\ lsToken' = tok
  /\ lsExpires' = tok
  /\ authHeader' = tok
  /\ micro' = processQueue("none", tok)
  /\ failedQueue' = <<>>
  /\ calls' = [calls EXCEPT ![c].st = "sent", ![c].rhdr = 0,
                            ![c].chain = installs,
                            ![c].replays = Min2(@ + 1, MaxReplays),
                            ![c].hdr = requestInterceptor(tok, tok)]
  /\ isRefreshing' = FALSE
  /\ UNCHANGED <<lsUser, lsProgress, lsUserProgress, redirecting>>

\* The POST /refresh of driver c is itself an axios call: its 401 comes back
\* through the response interceptor, with the refresh request as
\* originalRequest (never marked _retry).  While isRefreshing it is queued
\* like any other call, and the driver's await waits for that queue entry.
refreshRejected401(c) ==
  IF isRefreshing
  THEN /\ failedQueue' = Append(failedQueue, [c |-> c, ref |-> TRUE])
       /\ calls' = [calls EXCEPT ![c].st = "refq"]
       /\ UNCHANGED <<storage, authHeader, isRefreshing, micro, redirecting>>
  ELSE \* not refreshing: the refresh request would drive a renewal of its own
       renewalStart(c)

-----------------------------------------------------------------------------
(* The backend's replies: one task each. *)

\* The token the backend issues in exchange for token t: another one.
Renewed(t) == (t % MaxTok) + 1

InFlight(c) == calls[c].st = "sent"

\* A 2xx reply to an application call, to POST /logout or to POST
\* /activity/record: the response interceptor passes it through.
ReplyOk(c) ==
  /\ UNCHANGED <<events, tracker, task>>
  /\ micro = <<>>
  /\ InFlight(c)
  /\ c \in AppCalls \/ c = LogoutCall \/ (c = LoginCall /\ loginPc.pc = "activity")
  /\ micro' = <<Settle(c, "ok")>>
  /\ calls' = [calls EXCEPT ![c].st = "settling"]
  /\ UNCHANGED <<storage, authHeader, installed, installs, coord, react, timers, leaked,
                 loginPc, logoutPc, redirecting>>

\* An error reply to any call.
ReplyError(c, status) ==
  /\ UNCHANGED <<events, tracker, task>>
  /\ micro = <<>>
  /\ InFlight(c)
  /\ responseInterceptor(c, status)
  /\ UNCHANGED <<installed, installs, react, timers, leaked, loginPc, logoutPc>>

\* POST /login or /register answered {success: true, data: {user, token, expires_at}}.
LoginReplyOk(t) ==
  /\ UNCHANGED <<events, tracker, task>>
  /\ micro = <<>>
  /\ InFlight(LoginCall) /\ loginPc.pc = "login"
  /\ micro' = <<[Settle(LoginCall, "ok") EXCEPT !.usr = TheUser, !.tok = t]>>
  /\ calls' = [calls EXCEPT ![LoginCall].st = "settling"]
  /\ UNCHANGED <<storage, authHeader, installed, installs, coord, react, timers, leaked,
                 loginPc, logoutPc, redirecting>>

\* POST /login or /register answered 2xx with {success: false}.
LoginReplyRefused ==
  /\ UNCHANGED <<events, tracker, task>>
  /\ micro = <<>>
  /\ InFlight(LoginCall) /\ loginPc.pc = "login"
  /\ micro' = <<Settle(LoginCall, "okFalse")>>
  /\ calls' = [calls EXCEPT ![LoginCall].st = "settling"]
  /\ UNCHANGED <<storage, authHeader, installed, installs, coord, react, timers, leaked,
                 loginPc, logoutPc, redirecting>>

\* GET /check-token answered {success: true, data: {refreshed, token?, expires_at}}:
\* a new token, or the expiry of the token the request presented.
CheckReplyOk(refreshed) ==
  /\ UNCHANGED <<events, tracker, task>>
  /\ micro = <<>>
  /\ InFlight(CheckCall) /\ calls[CheckCall].hdr # 0
  /\ micro' = <<[Settle(CheckCall, "ok") EXCEPT
                   !.refreshed = refreshed,
                   !.tok = IF refreshed THEN Renewed(calls[CheckCall].hdr)
                                           ELSE calls[CheckCall].hdr]>>
  /\ calls' = [calls EXCEPT ![CheckCall].st = "settling"]
  /\ UNCHANGED <<storage, authHeader, installed, installs, coord, react, timers, leaked,
                 loginPc, logoutPc, redirecting>>

\* POST /refresh answered {token, expires_at}.
RefreshReplyOk(c) ==
  /\ UNCHANGED <<events, tracker, task>>
  /\ micro = <<>>
  /\ calls[c].st = "driving"
  /\ renewalSucceeded(c, Renewed(calls[c].rhdr))
  /\ UNCHANGED <<installed, installs, react, timers, leaked, loginPc, logoutPc>>

\* POST /refresh failed without a 401 (network failure, 5xx).
RefreshReplyError(c) ==
  /\ UNCHANGED <<events, tracker, task>>
  /\ micro = <<>>
  /\ calls[c].st = "driving"
  /\ renewalFailed(c, "eRefresh", <<>>)
  /\ UNCHANGED <<installed, installs, react, timers, leaked, loginPc, logoutPc>>

\* POST /refresh answered 401.
RefreshReply401(c) ==
  /\ UNCHANGED <<events, tracker, task>>
  /\ micro = <<>>
  /\ calls[c].st = "driving"
  /\ refreshRejected401(c)
  /\ UNCHANGED <<installed, installs, react, timers, leaked, loginPc, logoutPc>>

-----------------------------------------------------------------------------
(* contexts/AuthContext.tsx *)

Max2(x, y) == IF x >= y THEN x ELSE y

\* App.tsx: AppContent renders MainApp while a user is set and loading is
\* false; MainApp's effect runs setupAxiosInterceptors().  The render and its
\* effect belong to the task that set the state (u, l).
MainAppEffect(u, l) == installed \/ (u # 0 /\ ~l)

\* App.tsx 58-66: the effect on [difficulty, user] runs when MainApp mounts
\* and when setUser stored another user object (set); each run adds one
\* more pair of handlers, and nothing removes them.  Installations past
\* MaxInstalls are not told apart.
MainAppInstalls(u, l, set) ==
  IF u # 0 /\ ~l /\ (set \/ ~(user # 0 /\ ~loading))
  THEN Min2(installs + 1, MaxInstalls)
  ELSE installs

\* The task's own setInterval returns this handle; Handles then renames it.
Fresh == 4

\* timers, leaked and the three places that hold a handle, after a task that
\* leaves the timers tm (over 1..Fresh), tokenCheckInterval = a, the login
\* closure lp and the logout closure op.  Handles are opaque: they are renamed
\* in the order tokenCheckInterval, login closure, logout closure.  A handle
\* login captured is only ever passed to clearInterval, so one whose timer is
\* already cleared is as good as null.  An armed timer no handle refers to can
\* never be cleared: only what it captured is kept, in leaked.
Handles(tm, a, lp, op) ==
  LET b == IF lp.capInterval # 0 /\ tm[lp.capInterval].armed THEN lp.capInterval ELSE 0
      c == op.capInterval
      na == IF a = 0 THEN 0 ELSE 1
      nb == IF b = 0 THEN 0 ELSE IF b = a THEN na ELSE na + 1
      nc == IF c = 0 THEN 0 ELSE IF c = a THEN na ELSE IF c = b THEN nb
            ELSE Max2(na, nb) + 1
  IN /\ tokenCheckInterval' = na
     /\ loginPc' = [lp EXCEPT !.capInterval = nb]
     /\ logoutPc' = [op EXCEPT !.capInterval = nc]
     /\ timers' = [i \in TimerIds |->
                     IF i = na THEN tm[a] ELSE IF i = nb THEN tm[b]
                     ELSE IF i = nc THEN tm[c] ELSE NoTimer]
     /\ leaked' = leaked \cup
                    {tm[j].token : j \in {k \in 1..Fresh : tm[k].armed /\ k \notin {a, b, c}}}

\* The timers of the state, with room for one more.
Timers == [i \in 1..Fresh |-> IF i \in TimerIds THEN timers[i] ELSE NoTimer]

clearInterval(tm, h) == IF h # 0 THEN [tm EXCEPT ![h] = NoTimer] ELSE tm

\* startTokenMonitoring of the render whose tokenCheckInterval, token and
\* isActive were capInterval, capToken, capActive: the timers after
\* clearInterval(capInterval) and setInterval(callback).  The callback does
\* something only `if (token && isActive)`, both captured: a timer records the
\* captured token when both hold and 0 when its ticks do nothing.
\* setTokenCheckInterval(Fresh) is the caller's.
startTokenMonitoring(capInterval, capToken, capActive) ==
  [clearInterval(Timers, capInterval) EXCEPT
     ![Fresh] = [armed |-> TRUE, token |-> IF capActive THEN capToken ELSE 0]]

\* The effect on [startTokenMonitoring]: mount, and every render in which
\* tokenCheckInterval, token or isActive changed.
ColdStartEffect ==
  /\ UNCHANGED <<events, tracker, task>>
  /\ micro = <<>>
  /\ effectDue
  /\ IF lsToken # 0 /\ lsUser # 0
     THEN /\ token' = lsToken
          /\ user' = JSONparse(lsUser)
          /\ authHeader' = lsToken
          /\ Handles(startTokenMonitoring(tokenCheckInterval, token, isActive),
                     Fresh, loginPc, logoutPc)
          /\ effectDue' = TRUE
     ELSE /\ effectDue' = FALSE
          /\ UNCHANGED <<token, user, authHeader, tokenCheckInterval, timers, leaked,
                         loginPc, logoutPc>>
  /\ loading' = FALSE
  /\ installed' = MainAppEffect(user', loading')
  /\ installs' = MainAppInstalls(user', loading', (lsToken # 0 /\ lsUser # 0))
  /\ UNCHANGED <<storage, coord, calls, micro, error, isActive, redirecting>>

\* The document listeners: any interaction sets isActive.
handleActivity ==
  /\ events < MaxEvents
  /\ events' = events + 1
  /\ UNCHANGED <<tracker, task>>
  /\ micro = <<>>
  /\ ~isActive
  /\ isActive' = TRUE
  /\ effectDue' = TRUE
  /\ UNCHANGED <<storage, authHeader, installed, installs, coord, calls, micro, user, token,
                 loading, error, tokenCheckInterval, timers, leaked, loginPc, logoutPc,
                 redirecting>>

\* The 5 minute timeout armed while isActive.
InactivityTimeout ==
  /\ events < MaxEvents
  /\ events' = events + 1
  /\ UNCHANGED <<tracker, task>>
  /\ micro = <<>>
  /\ isActive
  /\ isActive' = FALSE
  /\ effectDue' = TRUE
  /\ UNCHANGED <<storage, authHeader, installed, installs, coord, calls, micro, user, token,
                 loading, error, tokenCheckInterval, timers, leaked, loginPc, logoutPc,
                 redirecting>>

\* A tick of an interval whose callback captured a token and isActive = true:
\* GET /check-token goes out (one check in flight at a time).
IssueCheck ==
  /\ events < MaxEvents
  /\ events' = events + 1
  /\ UNCHANGED <<tracker, task>>
  /\ calls[CheckCall].st = "idle"
  /\ calls' = [calls EXCEPT ![CheckCall] =
                 [IdleCall EXCEPT !.st = "sent", !.icpt = installed, !.chain = installs,
                                  !.hdr = Outbound(installed, lsToken, authHeader)]]
  /\ UNCHANGED <<storage, authHeader, installed, installs, coord, micro, react, timers, leaked,
                 loginPc, logoutPc, redirecting>>

MonitorTick(i) ==
  /\ micro = <<>>
  /\ timers[i].armed /\ timers[i].token # 0
  /\ IssueCheck

LeakedTick ==
  /\ micro = <<>>
  /\ \E t \in leaked : t # 0
  /\ IssueCheck

\* CheckSettled that keeps a refreshed token in the component state only.
CheckSettled_StateOnly ==
  /\ UNCHANGED <<events, tracker, task>>
  /\ micro # <<>>
  /\ Head(micro).t = "settle" /\ Head(micro).c = CheckCall
  /\ micro' = Tail(micro)
  /\ calls' = [calls EXCEPT ![CheckCall] = IdleCall]
  /\ IF Head(micro).err = "ok" /\ Head(micro).refreshed
     THEN /\ token' = Head(micro).tok
          /\ effectDue' = (effectDue \/ token' # token)
          /\ UNCHANGED <<lsToken, lsExpires, authHeader>>
     ELSE IF Head(micro).err = "ok"
          THEN /\ lsExpires' = Head(micro).tok
               /\ UNCHANGED <<token, lsToken, authHeader, effectDue>>
          ELSE UNCHANGED <<token, lsToken, lsExpires, authHeader, effectDue>>
  /\ UNCHANGED <<lsUser, lsProgress, lsUserProgress, installed, installs, coord, user, loading, error, isActive,
                 tokenCheckInterval, timers, leaked, loginPc, logoutPc, redirecting>>

\* CheckSettled that handles every successful answer as a refreshed one.
CheckSettled_AlwaysRefreshed ==
  /\ UNCHANGED <<events, tracker, task>>
  /\ micro # <<>>
  /\ Head(micro).t = "settle" /\ Head(micro).c = CheckCall
  /\ micro' = Tail(micro)
  /\ calls' = [calls EXCEPT ![CheckCall] = IdleCall]
  /\ IF Head(micro).err = "ok"
     THEN /\ token' = Head(micro).tok
          /\ lsToken' = Head(micro).tok
          /\ lsExpires' = Head(micro).tok
          /\ authHeader' = Head(micro).tok
          /\ effectDue' = (effectDue \/ token' # token)
     ELSE UNCHANGED <<token, lsToken, lsExpires, authHeader, effectDue>>
  /\ UNCHANGED <<lsUser, lsProgress, lsUserProgress, installed, installs, coord, user, loading, error, isActive,
                 tokenCheckInterval, timers, leaked, loginPc, logoutPc, redirecting>>

\* CheckSettled whose catch block logs the user out on a 401, as its comment
\* announces.
CheckSettled_LogsOutOn401 ==
  /\ UNCHANGED <<events, tracker, task>>
  /\ micro # <<>>
  /\ Head(micro).t = "settle" /\ Head(micro).c = CheckCall
  /\ micro' = Tail(micro)
  /\ calls' = [calls EXCEPT ![CheckCall] = IdleCall]
  /\ IF Head(micro).err = "ok" /\ Head(micro).refreshed
     THEN /\ token' = Head(micro).tok
          /\ lsToken' = Head(micro).tok
          /\ lsExpires' = Head(micro).tok
          /\ authHeader' = Head(micro).tok
          /\ effectDue' = (effectDue \/ token' # token)
          /\ UNCHANGED <<lsUser, user>>
     ELSE IF Head(micro).err = "ok"
          THEN /\ lsExpires' = Head(micro).tok
               /\ UNCHANGED <<token, lsToken, authHeader, effectDue, lsUser, user>>
          ELSE IF Head(micro).err = "e401"
               THEN /\ lsToken' = 0 /\ lsUser' = 0 /\ lsExpires' = 0
                    /\ authHeader' = 0 /\ user' = 0 /\ token' = 0
                    /\ effectDue' = (effectDue \/ token' # token)
               ELSE UNCHANGED <<token, lsToken, lsExpires, authHeader, effectDue,
                                lsUser, user>>
  /\ UNCHANGED <<lsProgress, lsUserProgress, installed, installs, coord, loading, error, isActive,
                 tokenCheckInterval, timers, leaked, loginPc, logoutPc, redirecting>>

\* The interval callback after `await axios.get(.../check-token)`.
CheckSettled ==
  /\ UNCHANGED <<events, tracker, task>>
  /\ micro # <<>>
  /\ Head(micro).t = "settle" /\ Head(micro).c = CheckCall
  /\ micro' = Tail(micro)
  /\ calls' = [calls EXCEPT ![CheckCall] = IdleCall]
  /\ IF Head(micro).err = "ok" /\ Head(micro).refreshed
     THEN /\ token' = Head(micro).tok
          /\ lsToken' = Head(micro).tok
          /\ lsExpires' = Head(micro).tok
          /\ authHeader' = Head(micro).tok
          /\ effectDue' = (effectDue \/ token' # token)
     ELSE IF Head(micro).err = "ok"
          THEN /\ lsExpires' = Head(micro).tok
               /\ UNCHANGED <<token, lsToken, authHeader, effectDue>>
          ELSE UNCHANGED <<token, lsToken, lsExpires, authHeader, effectDue>>
  /\ UNCHANGED <<lsUser, lsProgress, lsUserProgress, installed, installs, coord, user, loading, error, isActive,
                 tokenCheckInterval, timers, leaked, loginPc, logoutPc, redirecting>>

\* login(email, password) / register(...), up to the await of the POST.
LoginStart(op) ==
  /\ events < MaxEvents
  /\ events' = events + 1
  /\ UNCHANGED <<tracker, task>>
  /\ micro = <<>>
  /\ user = 0 /\ ~loading /\ loginPc.pc = "idle"
  /\ loading' = TRUE
  /\ error' = FALSE
  /\ Handles(Timers, tokenCheckInterval,
             [pc |-> "login", op |-> op, capInterval |-> tokenCheckInterval,
              capToken |-> token, capActive |-> isActive], logoutPc)
  /\ calls' = [calls EXCEPT ![LoginCall] =
                 [IdleCall EXCEPT !.st = "sent", !.icpt = installed, !.chain = installs,
                                  !.hdr = Outbound(installed, lsToken, authHeader)]]
  /\ UNCHANGED <<storage, authHeader, installed, installs, coord, micro, user, token, isActive,
                 effectDue, redirecting>>

\* LoginSucceeded that leaves axios.defaults.headers.common alone.
LoginSucceeded_NoDefaultHeader ==
  /\ UNCHANGED <<events, tracker, task>>
  /\ micro # <<>>
  /\ Head(micro).t = "settle" /\ Head(micro).c = LoginCall
  /\ loginPc.pc = "login" /\ Head(micro).err = "ok"
  /\ micro' = Tail(micro)
  /\ user' = Head(micro).usr
  /\ token' = Head(micro).tok
  /\ lsToken' = Head(micro).tok
  /\ lsUser' = JSONstringify(Head(micro).usr)
  /\ lsExpires' = Head(micro).tok
  /\ UNCHANGED authHeader
  /\ IF loginPc.op = "login"
     THEN /\ calls' = [calls EXCEPT ![LoginCall] =
                         [IdleCall EXCEPT !.st = "sent", !.icpt = installed, !.chain = installs,
                            !.hdr = Outbound(installed, Head(micro).tok, Head(micro).tok)]]
          /\ loginPc' = [loginPc EXCEPT !.pc = "activity"]
          /\ effectDue' = (effectDue \/ token' # token)
          /\ UNCHANGED <<loading, tokenCheckInterval, timers, leaked, logoutPc>>
     ELSE /\ calls' = [calls EXCEPT ![LoginCall] = IdleCall]
          /\ Handles(startTokenMonitoring(loginPc.capInterval, loginPc.capToken,
                                          loginPc.capActive),
                     Fresh, LoginIdle, logoutPc)
          /\ effectDue' = TRUE
          /\ loading' = FALSE
  /\ installed' = MainAppEffect(user', loading')
  /\ installs' = MainAppInstalls(user', loading', TRUE)
  /\ UNCHANGED <<lsProgress, lsUserProgress, coord, error, isActive, redirecting>>

\* login / register after the POST answered {success: true, data}: state,
\* storage and default header are set; login then awaits POST /activity/record,
\* register starts the monitor and ends.
LoginSucceeded ==
  /\ UNCHANGED <<events, tracker, task>>
  /\ micro # <<>>
  /\ Head(micro).t = "settle" /\ Head(micro).c = LoginCall
  /\ loginPc.pc = "login" /\ Head(micro).err = "ok"
  /\ micro' = Tail(micro)
  /\ user' = Head(micro).usr
  /\ token' = Head(micro).tok
  /\ lsToken' = Head(micro).tok
  /\ lsUser' = JSONstringify(Head(micro).usr)
  /\ lsExpires' = Head(micro).tok
  /\ authHeader' = Head(micro).tok
  /\ IF loginPc.op = "login"
     THEN /\ calls' = [calls EXCEPT ![LoginCall] =
                         [IdleCall EXCEPT !.st = "sent", !.icpt = installed, !.chain = installs,
                            !.hdr = Outbound(installed, Head(micro).tok, Head(micro).tok)]]
          /\ loginPc' = [loginPc EXCEPT !.pc = "activity"]
          /\ effectDue' = (effectDue \/ token' # token)
          /\ UNCHANGED <<loading, tokenCheckInterval, timers, leaked, logoutPc>>
     ELSE /\ calls' = [calls EXCEPT ![LoginCall] = IdleCall]
          /\ Handles(startTokenMonitoring(loginPc.capInterval, loginPc.capToken,
                                          loginPc.capActive),
                     Fresh, LoginIdle, logoutPc)
          /\ effectDue' = TRUE
          /\ loading' = FALSE
  /\ installed' = MainAppEffect(user', loading')
  /\ installs' = MainAppInstalls(user', loading', TRUE)
  /\ UNCHANGED <<lsProgress, lsUserProgress, coord, error, isActive, redirecting>>

\* login / register after the POST answered {success: false}, or failed.
LoginFailed ==
  /\ UNCHANGED <<events, tracker, task>>
  /\ micro # <<>>
  /\ Head(micro).t = "settle" /\ Head(micro).c = LoginCall
  /\ loginPc.pc = "login" /\ Head(micro).err # "ok"
  /\ micro' = Tail(micro)
  /\ calls' = [calls EXCEPT ![LoginCall] = IdleCall]
  /\ error' = (Head(micro).err # "okFalse")
  /\ loading' = FALSE
  /\ Handles(Timers, tokenCheckInterval, LoginIdle, logoutPc)
  /\ installed' = MainAppEffect(user, FALSE)
  /\ installs' = MainAppInstalls(user, FALSE, FALSE)
  /\ UNCHANGED <<storage, authHeader, coord, user, token, isActive,
                 effectDue, redirecting>>

\* login after POST /activity/record settled, either way.
LoginActivityRecorded ==
  /\ UNCHANGED <<events, tracker, task>>
  /\ micro # <<>>
  /\ Head(micro).t = "settle" /\ Head(micro).c = LoginCall
  /\ loginPc.pc = "activity"
  /\ micro' = Tail(micro)
  /\ calls' = [calls EXCEPT ![LoginCall] = IdleCall]
  /\ Handles(startTokenMonitoring(loginPc.capInterval, loginPc.capToken,
                                  loginPc.capActive),
             Fresh, LoginIdle, logoutPc)
  /\ effectDue' = TRUE
  /\ loading' = FALSE
  /\ installed' = MainAppEffect(user, FALSE)
  /\ installs' = MainAppInstalls(user, FALSE, FALSE)
  /\ UNCHANGED <<storage, authHeader, coord, user, token, error, isActive,
                 redirecting>>

\* AppContent stops rendering MainApp (the user is gone): the state of its
\* useActivityTracker is dropped, and a handleQuerySubmit that is still
\* awaiting goes on without a component to update.
MainAppUnmount ==
  /\ isInTask' = FALSE /\ taskType' = "none"
  /\ queryPc' = [queryPc EXCEPT !.mounted = FALSE]

\* stopTokenMonitoring of the render whose tokenCheckInterval was capInterval,
\* then the rest of logout's finally block.
logoutFinally(capInterval) ==
  /\ Handles(clearInterval(Timers, capInterval),
             IF capInterval # 0 THEN 0 ELSE tokenCheckInterval, loginPc, LogoutIdle)
  /\ user' = 0
  /\ token' = 0
  /\ lsToken' = 0 /\ lsUser' = 0 /\ lsExpires' = 0 /\ lsProgress' = FALSE
  /\ UNCHANGED lsUserProgress
  /\ authHeader' = 0
  /\ MainAppUnmount
  /\ effectDue' = (effectDue \/ token # 0 \/ (capInterval # 0 /\ tokenCheckInterval # 0))

\* logout(), up to the await of POST /logout; without a token in the state
\* nothing is posted and the finally block runs at once.
LogoutStart ==
  /\ events < MaxEvents
  /\ events' = events + 1
  /\ UNCHANGED tracker
  /\ micro = <<>>
  /\ user # 0 /\ ~loading /\ installed /\ logoutPc.pc = "idle"
  /\ IF token # 0
     THEN /\ Handles(Timers, tokenCheckInterval, loginPc,
                     [pc |-> "wait", capInterval |-> tokenCheckInterval, capToken |-> token])
          /\ calls' = [calls EXCEPT ![LogoutCall] =
                         [IdleCall EXCEPT !.st = "sent", !.icpt = TRUE, !.chain = installs,
                                          !.hdr = requestInterceptor(lsToken, authHeader)]]
          /\ UNCHANGED <<storage, authHeader, user, token, effectDue, task>>
     ELSE /\ logoutFinally(tokenCheckInterval)
          /\ UNCHANGED calls
  /\ UNCHANGED <<installed, installs, coord, micro, loading, error, isActive, redirecting>>

\* LogoutSettled with the clearing at the end of the try block instead of in
\* finally: a rejected POST /logout is logged and nothing is cleared.
LogoutSettled_ClearsOnSuccessOnly ==
  /\ UNCHANGED <<events, tracker>>
  /\ micro # <<>>
  /\ Head(micro).t = "settle" /\ Head(micro).c = LogoutCall
  /\ micro' = Tail(micro)
  /\ calls' = [calls EXCEPT ![LogoutCall] = IdleCall]
  /\ IF Head(micro).err = "ok"
     THEN logoutFinally(logoutPc.capInterval)
     ELSE /\ Handles(Timers, tokenCheckInterval, loginPc, LogoutIdle)
          /\ UNCHANGED <<storage, authHeader, user, token, effectDue, task>>
  /\ UNCHANGED <<installed, installs, coord, loading, error, isActive, redirecting>>

\* logout() after POST /logout settled, either way.
LogoutSettled ==
  /\ UNCHANGED <<events, tracker>>
  /\ micro # <<>>
  /\ Head(micro).t = "settle" /\ Head(micro).c = LogoutCall
  /\ micro' = Tail(micro)
  /\ calls' = [calls EXCEPT ![LogoutCall] = IdleCall]
  /\ logoutFinally(logoutPc.capInterval)
  /\ UNCHANGED <<installed, installs, coord, loading, error, isActive, redirecting>>

-----------------------------------------------------------------------------
(* App.tsx *)

\* An application call (fetchQuestions, loadUserProgress, evaluate, ...) goes
\* out through the request interceptor.
SendCall(c) ==
  /\ events < MaxEvents
  /\ events' = events + 1
  /\ UNCHANGED <<tracker, task>>
  /\ micro = <<>>
  /\ user # 0 /\ ~loading /\ installed
  /\ calls[c].st = "idle"
  /\ calls' = [calls EXCEPT ![c] =
                 [IdleCall EXCEPT !.st = "sent", !.icpt = TRUE, !.chain = installs,
                                  !.hdr = requestInterceptor(lsToken, authHeader)]]
  /\ UNCHANGED <<storage, authHeader, installed, installs, coord, micro, react, timers, leaked,
                 loginPc, logoutPc, redirecting>>

\* setTaskState(isInTask, taskType) of useActivityTracker: taskType || null.
setTaskState(inTask, type) ==
  /\ isInTask' = inTask
  /\ taskType' = type

\* handleQuerySubmit up to `await axios.post(.../evaluate)`: the tracker is
\* told a task runs, then the request goes out.  The form is disabled while
\* the handler runs.
handleQuerySubmit(c) ==
  /\ events < MaxEvents
  /\ events' = events + 1
  /\ UNCHANGED tracker
  /\ micro = <<>>
  /\ user # 0 /\ ~loading /\ installed
  /\ queryPc.pc = "idle"
  /\ calls[c].st = "idle"
  /\ setTaskState(TRUE, "query_execution")
  /\ queryPc' = [pc |-> "evaluate", c |-> c, mounted |-> TRUE]
  /\ calls' = [calls EXCEPT ![c] =
                 [IdleCall EXCEPT !.st = "sent", !.icpt = TRUE, !.chain = installs,
                                  !.hdr = requestInterceptor(lsToken, authHeader)]]
  /\ UNCHANGED <<storage, authHeader, installed, installs, coord, micro, react, timers, leaked,
                 loginPc, logoutPc, redirecting>>

\* The `finally` of handleQuerySubmit: setTaskState(false), which updates the
\* tracker of the MainApp that ran the handler if it is still there.
querySubmitFinally ==
  /\ IF queryPc.mounted THEN setTaskState(FALSE, "none") ELSE UNCHANGED <<isInTask, taskType>>
  /\ queryPc' = QueryIdle

\* What handleQuerySubmit awaits after the call awaited at pc settled with err:
\* after a correct answer loadUserProgress, fetchQuestions and fetchStreak in
\* turn, each of which catches its own error; "idle" when the handler is done.
QueryNext(pc, err, correct) ==
  IF pc = "evaluate" THEN (IF err = "ok" /\ correct THEN "progress" ELSE "idle")
  ELSE IF pc = "progress" THEN "questions"
  ELSE IF pc = "questions" THEN "streak"
  ELSE "idle"

\* AppCallSettled in which handleQuerySubmit calls setTaskState(false) at the
\* end of its try block only: a failed request leaves the task flag set.
AppCallSettled_ClearsOnSuccessOnly ==
  /\ UNCHANGED <<events, tracker>>
  /\ micro # <<>>
  /\ Head(micro).t = "settle" /\ Head(micro).c \in AppCalls
  /\ micro' = Tail(micro)
  /\ IF queryPc.pc # "idle" /\ queryPc.c = Head(micro).c
     THEN \E correct \in BOOLEAN :
            LET nxt == QueryNext(queryPc.pc, Head(micro).err, correct) IN
            IF nxt = "idle"
            THEN /\ calls' = [calls EXCEPT ![Head(micro).c] = IdleCall]
                 /\ IF Head(micro).err = "ok"
                    THEN querySubmitFinally
                    ELSE /\ queryPc' = QueryIdle
                         /\ UNCHANGED <<isInTask, taskType>>
            ELSE /\ calls' = [calls EXCEPT ![Head(micro).c] =
                               [IdleCall EXCEPT !.st = "sent", !.icpt = installed, !.chain = installs,
                                                !.hdr = Outbound(installed, lsToken, authHeader)]]
                 /\ queryPc' = [queryPc EXCEPT !.pc = nxt]
                 /\ UNCHANGED <<isInTask, taskType>>
     ELSE /\ calls' = [calls EXCEPT ![Head(micro).c] = IdleCall]
          /\ UNCHANGED task
  /\ UNCHANGED <<storage, authHeader, installed, installs, coord, react, timers, leaked,
                 loginPc, logoutPc, redirecting>>

\* The caller of an application call sees its promise settle; when the caller
\* is handleQuerySubmit it goes on to its next request or to its finally.
AppCallSettled ==
  /\ UNCHANGED <<events, tracker>>
  /\ micro # <<>>
  /\ Head(micro).t = "settle" /\ Head(micro).c \in AppCalls
  /\ micro' = Tail(micro)
  /\ IF queryPc.pc # "idle" /\ queryPc.c = Head(micro).c
     THEN \E correct \in BOOLEAN :
            LET nxt == QueryNext(queryPc.pc, Head(micro).err, correct) IN
            IF nxt = "idle"
            THEN /\ calls' = [calls EXCEPT ![Head(micro).c] = IdleCall]
                 /\ querySubmitFinally
            ELSE /\ calls' = [calls EXCEPT ![Head(micro).c] =
                               [IdleCall EXCEPT !.st = "sent", !.icpt = installed, !.chain = installs,
                                                !.hdr = Outbound(installed, lsToken, authHeader)]]
                 /\ queryPc' = [queryPc EXCEPT !.pc = nxt]
                 /\ UNCHANGED <<isInTask, taskType>>
     ELSE /\ calls' = [calls EXCEPT ![Head(micro).c] = IdleCall]
          /\ UNCHANGED task
  /\ UNCHANGED <<storage, authHeader, installed, installs, coord, react, timers, leaked,
                 loginPc, logoutPc, redirecting>>

\* The continuation of a queued waiter that processQueue released.
\*   resolved: `originalRequest.headers.Authorization = Bearer token; axios(originalRequest)`
\*   rejected: the call's promise rejects with the renewal's error
\* For the queue entry of a POST /refresh, the driver's await returns.
ReleaseWaiter ==
  /\ UNCHANGED <<events, tracker, task>>
  /\ micro # <<>>
  /\ Head(micro).t \in {"resolve", "reject"}
  /\ LET it == Head(micro) IN
     IF ~it.ref
     THEN /\ IF it.t = "resolve"
             THEN /\ calls' = [calls EXCEPT ![it.c].st = "sent",
                                 ![it.c].chain = installs,
                                 ![it.c].replays = Min2(@ + 1, MaxReplays),
                                 ![it.c].hdr = requestInterceptor(lsToken, it.tok)]
                  /\ micro' = Tail(micro)
             ELSE /\ calls' = [calls EXCEPT ![it.c].st = "settling"]
                  /\ micro' = <<Settle(it.c, it.err)>> \o Tail(micro)
          /\ UNCHANGED <<storage, authHeader, coord, redirecting>>
     ELSE IF it.t = "resolve"
          THEN /\ calls' = [calls EXCEPT ![it.c].st = "driving",
                              ![it.c].rhdr = requestInterceptor(lsToken, it.tok)]
               /\ micro' = Tail(micro)
               /\ UNCHANGED <<storage, authHeader, coord, redirecting>>
          ELSE renewalFailed(it.c, it.err, Tail(micro))
  /\ UNCHANGED <<installed, installs, react, timers, leaked, loginPc, logoutPc>>

\* saveUserProgress: the progress is cached under the key made from the
\* user's id, when there is a user.
saveUserProgress ==
  IF user # 0 THEN lsUserProgress' = TRUE ELSE UNCHANGED lsUserProgress

\* The user takes a hint (or resets the progress): saveUserProgress runs.
handleHintUsed ==
  /\ events < MaxEvents
  /\ events' = events + 1
  /\ UNCHANGED <<tracker, task>>
  /\ micro = <<>>
  /\ user # 0
  /\ saveUserProgress
  /\ UNCHANGED <<lsToken, lsUser, lsExpires, lsProgress, authHeader, installed, installs,
                 coord, calls, micro, react, timers, leaked, loginPc, logoutPc,
                 redirecting>>

\* The user picks another difficulty: the effect on [difficulty, user] runs
\* again.  Its fetches go out first, through the handlers installed so far;
\* then setupAxiosInterceptors() adds one more pair.
setDifficulty(c) ==
  /\ events < MaxEvents
  /\ events' = events + 1
  /\ UNCHANGED <<tracker, task>>
  /\ micro = <<>>
  /\ user # 0 /\ ~loading /\ installed
  /\ calls[c].st = "idle"
  /\ calls' = [calls EXCEPT ![c] =
                 [IdleCall EXCEPT !.st = "sent", !.icpt = TRUE, !.chain = installs,
                                  !.hdr = requestInterceptor(lsToken, authHeader)]]
  /\ installs' = Min2(installs + 1, MaxInstalls)
  /\ UNCHANGED <<storage, authHeader, installed, coord, micro, react, timers, leaked,
                 loginPc, logoutPc, redirecting>>

\* PageLoad that starts from an empty localStorage.
PageLoad_ClearsStore ==
  /\ authHeader' = 0
  /\ installed' = FALSE
  /\ installs' = 0
  /\ isRefreshing' = FALSE
  /\ failedQueue' = <<>>
  /\ calls' = [c \in CallIds |-> IdleCall]
  /\ user' = 0 /\ token' = 0 /\ loading' = TRUE /\ error' = FALSE
  /\ isActive' = TRUE /\ tokenCheckInterval' = 0
  /\ effectDue' = TRUE
  /\ timers' = [i \in TimerIds |-> NoTimer]
  /\ leaked' = {}
  /\ loginPc' = LoginIdle
  /\ logoutPc' = LogoutIdle
  /\ redirecting' = FALSE
  /\ isInTask' = FALSE /\ taskType' = "none" /\ queryPc' = QueryIdle
  /\ lsToken' = 0 /\ lsUser' = 0 /\ lsExpires' = 0
  /\ UNCHANGED <<lsProgress, lsUserProgress, micro>>

\* The page is loaded again: memory is lost, localStorage stays.
PageLoad ==
  /\ authHeader' = 0
  /\ installed' = FALSE
  /\ installs' = 0
  /\ isRefreshing' = FALSE
  /\ failedQueue' = <<>>
  /\ calls' = [c \in CallIds |-> IdleCall]
  /\ user' = 0 /\ token' = 0 /\ loading' = TRUE /\ error' = FALSE
  /\ isActive' = TRUE /\ tokenCheckInterval' = 0
  /\ effectDue' = TRUE
  /\ timers' = [i \in TimerIds |-> NoTimer]
  /\ leaked' = {}
  /\ loginPc' = LoginIdle
  /\ logoutPc' = LogoutIdle
  /\ redirecting' = FALSE
  /\ isInTask' = FALSE /\ taskType' = "none" /\ queryPc' = QueryIdle
  /\ UNCHANGED <<storage, micro>>

\* The user reloads the page.
Reload ==
  /\ events < MaxEvents
  /\ events' = events + 1
  /\ UNCHANGED tracker
  /\ micro = <<>>
  /\ PageLoad

\* The navigation that `window.location.href = '/login'` asked for happens.
NavigateToLogin ==
  /\ UNCHANGED <<events, tracker>>
  /\ micro = <<>>
  /\ redirecting
  /\ PageLoad

-----------------------------------------------------------------------------
Next ==
  \/ \E c \in AppCalls : SendCall(c)
  \/ \E c \in CallIds : ReplyOk(c)
  \/ \E c \in CallIds, status \in {"e401", "eNet"} : ReplyError(c, status)
  \/ \E t \in Tokens : LoginReplyOk(t)
  \/ LoginReplyRefused
  \/ \E r \in BOOLEAN : CheckReplyOk(r)
  \/ \E c \in CallIds : RefreshReplyOk(c)
  \/ \E c \in CallIds : RefreshReplyError(c)
  \/ \E c \in CallIds : RefreshReply401(c)
  \/ ReleaseWaiter
  \/ AppCallSettled
  \/ ColdStartEffect
  \/ \E i \in TimerIds : MonitorTick(i)
  \/ LeakedTick
  \/ CheckSettled
  \/ \E op \in {"login", "register"} : LoginStart(op)
  \/ LoginSucceeded
  \/ LoginFailed
  \/ LoginActivityRecorded
  \/ LogoutStart
  \/ LogoutSettled
  \/ NavigateToLogin
  \/ Reload
  \/ handleHintUsed
  \/ handleActivity
  \/ InactivityTimeout
  \/ \E c \in AppCalls : handleQuerySubmit(c)
  \/ \E c \in AppCalls : setDifficulty(c)

Spec == Init /\ [][Next]_vars

-----------------------------------------------------------------------------
(* hooks/useActivityTracker.ts, on a clock that counts minutes *)

FiveMinutes == 5
TenMinutes == 10

\* getInactivityDuration: Date.now() - activity.lastActivity.getTime().
getInactivityDuration == now - lastActivity

\* shouldPreventExpiration that also asks for activity.isActive.
shouldPreventExpiration_NeedsActive ==
  trackerActive /\ (isInTask \/ getInactivityDuration < FiveMinutes)

\* shouldPreventExpiration: activity.isInTask || inactivityDuration < fiveMinutes.
shouldPreventExpiration ==
  isInTask \/ getInactivityDuration < FiveMinutes

\* A minute passes.
ClockTick ==
  /\ now < MaxClock
  /\ now' = now + 1
  /\ UNCHANGED <<session, task, trackerActive, lastActivity, prevent>>

\* The document listeners of the tracker: isActive, and lastActivity = new Date().
trackerHandleActivity ==
  /\ trackerActive' = TRUE
  /\ lastActivity' = now
  /\ UNCHANGED <<session, task, now, prevent>>

\* The one-minute interval: isActive is dropped after more than ten minutes
\* without activity.
checkInactivity ==
  /\ getInactivityDuration > TenMinutes
  /\ trackerActive' = FALSE
  /\ UNCHANGED <<session, task, lastActivity, now, prevent>>

\* A caller brackets a long operation with setTaskState.
TaskStateSet(inTask) ==
  /\ setTaskState(inTask, IF inTask THEN "query_execution" ELSE "none")
  /\ UNCHANGED <<session, queryPc, tracker>>

\* Somebody asks shouldPreventExpiration().
ShouldPreventCalled ==
  /\ prevent' = (IF shouldPreventExpiration THEN "yes" ELSE "no")
  /\ UNCHANGED <<session, task, trackerActive, lastActivity, now>>

TrackerNext ==
  \/ ClockTick
  \/ trackerHandleActivity
  \/ checkInactivity
  \/ \E inTask \in BOOLEAN : TaskStateSet(inTask)
  \/ ShouldPreventCalled

TrackerSpec == Init /\ [][TrackerNext]_vars

\* The backend answers every request, somehow; the browser runs every
\* continuation and effect that is ready and performs the navigation it was
\* asked for.  Clicks and timer ticks may or may not come.
AnyReply(c) ==
  \/ ReplyOk(c)
  \/ \E status \in {"e401", "eNet"} : ReplyError(c, status)
  \/ (c = LoginCall /\ ((\E t \in Tokens : LoginReplyOk(t)) \/ LoginReplyRefused))
  \/ (c = CheckCall /\ \E r \in BOOLEAN : CheckReplyOk(r))

AnyRefreshReply(c) == RefreshReplyOk(c) \/ RefreshReplyError(c) \/ RefreshReply401(c)

Continuation ==
  \/ ReleaseWaiter \/ AppCallSettled \/ CheckSettled \/ LoginSucceeded
  \/ LoginFailed \/ LoginActivityRecorded \/ LogoutSettled

Fairness ==
  /\ \A c \in CallIds : WF_vars(AnyReply(c)) /\ WF_vars(AnyRefreshReply(c))
  /\ WF_vars(Continuation)
  /\ WF_vars(ColdStartEffect)
  /\ WF_vars(NavigateToLogin)

FairSpec == Spec /\ Fairness

-----------------------------------------------------------------------------
(* Properties *)

\* The calls whose POST /refresh is issued and not yet answered.
Driving == {c \in CallIds : calls[c].st = "driving"}

\* The calls parked in failedQueue.
Queued == {c \in CallIds : calls[c].st = "queued"}

\* This step is the reply 401 to call c.
Got401(c) ==
  /\ calls[c].st = "sent"
  /\ \/ calls'[c].st \in {"queued", "driving"}
     \/ /\ calls'[c].st = "settling"
        /\ micro' # <<>>
        /\ micro'[Len(micro')].c = c
        /\ micro'[Len(micro')].err \in {"e401", "eNoToken"}

\* This step sends call c (first attempt or replay).
SendStep(c) == calls[c].st # "sent" /\ calls'[c].st = "sent"

\* C1: in every reachable state at most one renewal request (POST /refresh)
\* is outstanding.
C1_AtMostOneRenewal == Cardinality(Driving) <= 1

\* A renewal is outstanding and a second call that got 401 meanwhile is parked.
C1_Witness == Driving # {} /\ Queued # {}


\* Call c goes through the interceptor, was not replayed by a driver yet, and
\* a token is stored: its 401 is one the interceptor renews for.
Renewable(c) == calls[c].icpt /\ ~calls[c].retry /\ lsToken # 0

\* C2: when calls that are not yet retried each receive 401 while a token is
\* stored, the one that arrives with no renewal in flight issues the renewal
\* request, each one that arrives while the renewal is in flight is parked and
\* issues none, so exactly one renewal request serves them all; and a parked
\* call is replayed or rejected only once that renewal has settled.
C2_OneRenewalForAll ==
  [][\A c \in CallIds :
       /\ (Got401(c) /\ Renewable(c)) =>
             IF isRefreshing
             THEN /\ calls'[c].st = "queued"
                  /\ {d \in CallIds : calls'[d].st = "driving"} = Driving
                  /\ isRefreshing'
             ELSE /\ calls'[c].st = "driving"
                  /\ {d \in CallIds : calls'[d].st = "driving"} = {c}
                  /\ isRefreshing'
       /\ (calls[c].st = "queued" /\ calls'[c].st \in {"sent", "settling"}) =>
             /\ Driving = {}
             /\ ~isRefreshing]_vars

\* Two calls wait for the one renewal: its driver and a parked call whose 401
\* came while it was in flight.
C2_Witness ==
  \E c, d \in CallIds :
    /\ calls[c].st = "driving"
    /\ calls[d].st = "queued"
    /\ Len(failedQueue) = 1 /\ failedQueue[1].c = d
    /\ isRefreshing
\* C3: when the renewal succeeds with a new token T2, the driver is replayed
\* carrying T2, every call parked during that renewal is handed T2 and is
\* replayed carrying T2, and no caller that the interceptor renews for is
\* handed the original 401.
C3_ReplayedWithNewToken ==
  [][\A c \in CallIds :
       /\ (calls[c].st = "driving" /\ calls'[c].st = "sent") =>
             /\ lsToken' # 0
             /\ calls'[c].hdr = lsToken'
             /\ Len(micro') = Len(failedQueue)
             /\ \A i \in 1..Len(failedQueue) :
                  /\ micro'[i].t = "resolve"
                  /\ micro'[i].c = failedQueue[i].c
                  /\ micro'[i].tok = lsToken'
       /\ (calls[c].st = "queued" /\ micro # <<>> /\ Head(micro).c = c
             /\ Head(micro).t = "resolve") =>
             /\ calls'[c].st = "sent"
             /\ calls'[c].hdr = Head(micro).tok
             /\ calls'[c].hdr = lsToken
       /\ \A i \in 1..Len(micro') :
            (micro'[i].t \in {"settle", "reject"} /\ micro'[i].err = "e401") =>
               (calls'[micro'[i].c].retry \/ ~calls'[micro'[i].c].icpt)]_vars

\* The renewal succeeded with T2: the driver's replay is in flight carrying
\* T2 and a parked call is about to be replayed with T2.
C3_Witness ==
  /\ micro # <<>>
  /\ Head(micro).t = "resolve" /\ ~Head(micro).ref
  /\ calls[Head(micro).c].st = "queued"
  /\ Head(micro).tok = lsToken
  /\ \E d \in CallIds :
       calls[d].st = "sent" /\ calls[d].retry /\ calls[d].hdr = Head(micro).tok
\* This step is the answer to the renewal request of driver c, and the answer
\* is not a new token.
RenewalFailedStep(c) ==
  calls[c].st = "driving" /\ calls'[c].st \in {"settling", "refq"}

\* C4: when the renewal fails, the driver and every call parked during that
\* renewal are handed that same failure and none is replayed, and the stored
\* token, user and expiry are absent afterwards.
C4_FailureRejectsAll ==
  [][\A c \in CallIds :
       /\ RenewalFailedStep(c) =>
             /\ lsToken' = 0 /\ lsUser' = 0 /\ lsExpires' = 0
             /\ failedQueue' = <<>>
             /\ Len(micro') = Len(failedQueue) + 1
             /\ micro'[Len(micro')].t = "settle"
             /\ micro'[Len(micro')].c = c
             /\ micro'[Len(micro')].err \notin {"none", "ok"}
             /\ \A i \in 1..Len(failedQueue) :
                  /\ micro'[i].t = "reject"
                  /\ micro'[i].c = failedQueue[i].c
                  /\ micro'[i].err = micro'[Len(micro')].err
       /\ (calls[c].st = "queued" /\ micro # <<>> /\ Head(micro).c = c
             /\ Head(micro).t = "reject") =>
             /\ calls'[c].st = "settling"
             /\ Head(micro').t = "settle"
             /\ Head(micro').c = c
             /\ Head(micro').err = Head(micro).err
             /\ lsToken' = 0 /\ lsUser' = 0 /\ lsExpires' = 0]_vars
\* C5: after a renewal failure and until the next successful login or
\* register, the default Authorization header holds no token and no call is
\* sent with a bearer credential.
C5_NoBearerAfterFailure ==
  [][/\ (redirecting' /\ lsToken' = 0) => authHeader' = 0
     /\ \A c \in CallIds :
          (redirecting /\ lsToken' = 0 /\ SendStep(c)) => calls'[c].hdr = 0]_vars

\* C6: every waiter put in the queue during a renewal, the renewal request's
\* own 401 included, is eventually taken out of it (replayed or rejected).
C6_WaitersSettle ==
  \A c \in CallIds :
    (calls[c].st \in {"queued", "refq"}) ~> (calls[c].st \notin {"queued", "refq"})

\* C7: when the replay of a call that drove a successful renewal is answered
\* 401, the call is handed that 401; it neither starts a renewal nor joins
\* the queue.
C7_NoSecondRenewal ==
  [][\A c \in CallIds :
       (Got401(c) /\ calls[c].drove) =>
          /\ calls'[c].st = "settling"
          /\ micro' = <<Settle(c, "e401")>>
          /\ {d \in CallIds : calls'[d].st = "driving"} = Driving
          /\ UNCHANGED <<isRefreshing, failedQueue, storage>>]_vars

\* The replay of a driver, sent with the renewed token, was answered 401 and
\* the rejection is on its way to the caller.
C7_Witness ==
  \E c \in CallIds :
    /\ micro = <<Settle(c, "e401")>>
    /\ calls[c].st = "settling" /\ calls[c].drove /\ calls[c].icpt
    /\ calls[c].hdr # 0 /\ calls[c].hdr = lsToken

\* The rejection of POST /logout is being delivered to logout().
LogoutRejected ==
  /\ micro # <<>>
  /\ Head(micro).t = "settle" /\ Head(micro).c = LogoutCall
  /\ Head(micro).err # "ok"
  /\ logoutPc.pc = "wait"

\* C8: when POST /logout is rejected (network failure or error status),
\* logout ends with user and token none, the stored token, user and expiry
\* removed and the default Authorization header removed.
C8_LogoutClearsOnReject ==
  [][(LogoutRejected /\ calls'[LogoutCall].st = "idle") =>
        /\ user' = 0 /\ token' = 0
        /\ lsToken' = 0 /\ lsUser' = 0 /\ lsExpires' = 0
        /\ authHeader' = 0
        /\ logoutPc'.pc = "idle"]_vars

\* A session with stored credentials and a default header, whose POST /logout
\* was rejected.
C8_Witness ==
  /\ LogoutRejected
  /\ user # 0 /\ token # 0 /\ lsToken # 0 /\ lsUser # 0 /\ authHeader # 0

\* The local session state is cleared.
SessionCleared ==
  /\ user = 0 /\ token = 0
  /\ lsToken = 0 /\ lsUser = 0 /\ lsExpires = 0
  /\ authHeader = 0

\* C9: every logout that awaits POST /logout eventually reaches the state
\* where the local session state is cleared.
C9_LogoutEventuallyClears == (logoutPc.pc = "wait") ~> SessionCleared

\* The monitor's check was answered {refreshed: true, token, expires_at} and
\* the answer is being delivered to the interval callback.
CheckRefreshed ==
  /\ micro # <<>>
  /\ Head(micro).t = "settle" /\ Head(micro).c = CheckCall
  /\ Head(micro).err = "ok" /\ Head(micro).refreshed

\* C10: when a check of the monitor receives {refreshed: true, token: T2,
\* expires_at: E2}, afterwards the stored token is T2, the stored expiry E2,
\* the default Authorization header T2, and every call sent while they stay
\* so carries T2.
C10_MonitorRefreshStored ==
  [][/\ (CheckRefreshed /\ calls'[CheckCall].st = "idle") =>
          /\ lsToken' = Head(micro).tok
          /\ lsExpires' = Head(micro).tok
          /\ authHeader' = Head(micro).tok
          /\ token' = Head(micro).tok
     /\ \A c \in CallIds :
          (SendStep(c) /\ lsToken' # 0 /\ authHeader' = lsToken') =>
             calls'[c].hdr = lsToken']_vars

\* The check was answered with a token T2 other than the stored one.
C10_Witness ==
  /\ CheckRefreshed
  /\ Head(micro).tok # lsToken /\ lsToken # 0 /\ Head(micro).tok # authHeader
\* The reply {success: true, data: {user, token, expires_at}} to POST /login
\* or /register is being delivered to login() / register().
LoginAnswered ==
  /\ micro # <<>>
  /\ Head(micro).t = "settle" /\ Head(micro).c = LoginCall
  /\ Head(micro).err = "ok"
  /\ loginPc.pc = "login"

\* C11: after a successful login or register that returned {user, token,
\* expires_at}, the stored token, user and expiry are the returned ones, the
\* default Authorization header holds the returned token and the state's
\* user and token are the returned ones.
C11_LoginPersists ==
  [][(LoginAnswered /\ micro' = Tail(micro)) =>
        /\ lsToken' = Head(micro).tok
        /\ lsUser' = JSONstringify(Head(micro).usr)
        /\ lsExpires' = Head(micro).tok
        /\ authHeader' = Head(micro).tok
        /\ user' = Head(micro).usr
        /\ token' = Head(micro).tok
        /\ Head(micro).tok # 0 /\ Head(micro).usr # 0]_vars

\* A login from the logged-out state was answered with a user and a token.
C11_Witness ==
  /\ LoginAnswered
  /\ lsToken = 0 /\ lsUser = 0 /\ authHeader = 0 /\ user = 0
  /\ Head(micro).tok # 0
\* This step is the end of a successful login() or register(): the call of
\* startTokenMonitoring() and the finally block.
LoginCompletes ==
  /\ micro # <<>>
  /\ Head(micro).t = "settle" /\ Head(micro).c = LoginCall
  /\ micro' = Tail(micro)
  /\ \/ loginPc.pc = "activity"
     \/ loginPc.pc = "login" /\ loginPc.op = "register" /\ Head(micro).err = "ok"
  /\ loginPc'.pc = "idle"

\* C12: the timer that a successful login or register arms issues
\* check-token at its ticks: its callback sees the token of the new session,
\* not the absence of a token from before the login.
C12_LoginTimerChecks ==
  [][LoginCompletes =>
        /\ tokenCheckInterval' # 0
        /\ timers'[tokenCheckInterval'].armed
        /\ timers'[tokenCheckInterval'].token # 0]_vars
\* This step is the finally block of logout().
LogoutCompletes == user # 0 /\ user' = 0 /\ ~loading'

\* C13: once logout has completed no timer of the monitor is left whose
\* ticks issue check-token, whatever logins, monitor restarts and logouts
\* came before.
C13_NoTimerAfterLogout ==
  [][LogoutCompletes =>
        /\ \A i \in TimerIds : ~(timers'[i].armed /\ timers'[i].token # 0)
        /\ \A t \in leaked' : t = 0]_vars
\* C14: every call goes out with the token the store holds at the moment it
\* is sent, and with no bearer credential when the store holds none; so does
\* every renewal request.
C14_BearerIsStoredToken ==
  [][\A c \in CallIds :
       /\ SendStep(c) => calls'[c].hdr = lsToken'
       /\ (calls[c].st # "driving" /\ calls'[c].st = "driving") =>
             calls'[c].rhdr = lsToken']_vars
\* The monitor's check was answered {success: true, refreshed: false,
\* expires_at} and the answer is being delivered to the interval callback.
CheckConfirmed ==
  /\ micro # <<>>
  /\ Head(micro).t = "settle" /\ Head(micro).c = CheckCall
  /\ Head(micro).err = "ok" /\ ~Head(micro).refreshed

\* C15 as stated: the stored token and the stored expiry change in the same
\* steps, never one without the other.
C15_TokenAndExpiryTogether ==
  [][(lsToken' # lsToken) <=> (lsExpires' # lsExpires)]_vars

\* C15 amended: every step that changes the stored token stores the expiry
\* issued with it (or removes both), and every step that changes the stored
\* expiry leaves the expiry of the token the store then holds, except the
\* delivery of a check of the monitor answered "still valid", which stores
\* the expiry it received and leaves the token alone.
C15_TokenWritesExpiry ==
  [][/\ (lsToken' # lsToken) => (lsExpires' = lsToken')
     /\ (lsExpires' # lsExpires) =>
           \/ lsExpires' = lsToken'
           \/ /\ CheckConfirmed /\ micro' = Tail(micro)
              /\ lsExpires' = Head(micro).tok
              /\ lsToken' = lsToken]_vars

\* A check answered "still valid" is about to store an expiry other than the
\* stored one while a token is stored.
C15_Witness ==
  /\ CheckConfirmed
  /\ Head(micro).tok # lsExpires
  /\ lsToken # 0
\* C16: isRefreshing is true exactly when one renewal request is issued and
\* not yet answered.
C16_FlagIffRenewalOutstanding == isRefreshing <=> (Cardinality(Driving) = 1)
\* This step is the catch block of a driver: the renewal failed for good
\* (POST /refresh failed, or no token was stored).
RenewalGaveUp ==
  \E c \in CallIds :
    /\ calls[c].st \in {"sent", "driving"}
    /\ calls'[c].st = "settling"
    /\ micro' # <<>>
    /\ micro'[Len(micro')].c = c
    /\ micro'[Len(micro')].err \in {"eRefresh", "eNoToken"}

\* C17: after a renewal failed for good the state's user is none, as after
\* logout.
C17_UserNoneAfterFailure == [][RenewalGaveUp => user' = 0]_vars
\* The page was just loaded: nothing in memory, the mount effect not yet run.
FreshPage == loading /\ loginPc.pc = "idle" /\ user = 0 /\ ~installed

\* C18: on a page loaded after a successful login, the cold-start read gives
\* back the user that logged in and sets the default Authorization header to
\* the stored token; the session is restored only when both token and user
\* are stored; loading is false afterwards.
C18_ReloadRestoresSession ==
  [][(FreshPage /\ events' = events) =>
        /\ ~loading'
        /\ IF lsToken # 0 /\ lsUser # 0
           THEN /\ user' = TheUser
                /\ JSONstringify(user') = lsUser
                /\ token' = lsToken
                /\ authHeader' = lsToken
           ELSE /\ user' = 0 /\ token' = 0
                /\ authHeader' = 0]_vars

\* A page loaded anew in a run in which something happened before, with the
\* token and user of a login in the store.
C18_Witness ==
  /\ FreshPage
  /\ events > 0
  /\ lsToken # 0 /\ lsUser = JSONstringify(TheUser) /\ lsExpires = lsToken

\* A step that removes the stored session: the token, the user and the
\* expiry are all absent afterwards and at least one of them was present.
\* Only logout's `finally` and the renewal's failure path do this.
ClearsSession ==
  /\ lsToken # 0 \/ lsUser # 0 \/ lsExpires # 0
  /\ lsToken' = 0 /\ lsUser' = 0 /\ lsExpires' = 0

\* C19: both logout and a failed renewal remove, besides token, user and
\* expiry, the progress that the application cached under the key made from
\* the current user's id.
C19_ProgressRemoved ==
  [][ClearsSession => ~lsUserProgress']_vars

\* C20: whenever the renewal flag becomes true it eventually becomes false
\* again (the renewal succeeded, failed, was answered 401 or was skipped for
\* want of a stored token), so that a later 401 can start a fresh renewal.
C20_FlagEventuallyReset ==
  isRefreshing ~> ~isRefreshing

\* The continuation of a waiter that processQueue released is at the head of
\* the microtask queue.
WaiterReleased == micro # <<>> /\ Head(micro).t \in {"resolve", "reject"}

\* C21: whenever the continuation of a released waiter runs (its replay is
\* issued or its rejection is delivered) the renewal flag is already false, and
\* a replay goes out unmarked, so that a 401 it receives starts a new renewal
\* instead of being queued on the finished one.
C21_FlagFalseAtRelease ==
  [][(WaiterReleased /\ micro' # micro) =>
        /\ ~isRefreshing
        /\ ~isRefreshing'
        /\ (Head(micro).t = "resolve" /\ ~Head(micro).ref) =>
              /\ calls'[Head(micro).c].st = "sent"
              /\ ~calls'[Head(micro).c].retry]_vars

\* A waiter's replay is about to be issued.
C21_Witness ==
  WaiterReleased /\ Head(micro).t = "resolve" /\ ~Head(micro).ref

\* The renewal request of some driver is answered in this step.
RenewalSettles ==
  \E c \in CallIds : calls[c].st = "driving" /\ calls'[c].st # "driving"

\* C22: in every reachable state the waiter queue is non-empty only if the
\* renewal flag is true, and the queue is empty in the state right after the
\* in-flight renewal settles.
C22_QueueDrained ==
  [][/\ failedQueue' # <<>> => isRefreshing'
     /\ RenewalSettles => failedQueue' = <<>>]_vars

IsRelease(it) == it.t \in {"resolve", "reject"}

\* The waiters processQueue released whose continuation has not run yet, as
\* call ids in the order the continuations will run.
ReleasedOrder(q) ==
  LET r == SelectSeq(q, IsRelease) IN [i \in 1..Len(r) |-> r[i].c]

\* C23: waiters are released in the order they were enqueued: when the queue
\* is drained the continuations are scheduled in queue order, and each waiter
\* that is replayed or rejected is the first of those still waiting.
C23_ReleasedInOrder ==
  [][/\ (failedQueue # <<>> /\ failedQueue' = <<>> /\ ~loading') =>
           ReleasedOrder(micro') = [i \in 1..Len(failedQueue) |-> failedQueue[i].c]
     /\ \A c \in CallIds :
          (calls[c].st = "queued" /\ calls'[c].st \in {"sent", "settling"}) =>
             /\ ReleasedOrder(micro) # <<>>
             /\ Head(ReleasedOrder(micro)) = c
             /\ ReleasedOrder(micro') = Tail(ReleasedOrder(micro))]_vars

\* Two waiters were queued during one renewal and the first is about to run.
C23_Witness ==
  /\ Len(ReleasedOrder(micro)) >= 2
  /\ WaiterReleased

\* Call c, in flight, starts a renewal in this step.
StartsRenewal(c) == calls[c].st = "sent" /\ calls'[c].st = "driving"

\* C24: the renewal request carries the token that is stored at the moment
\* the renewal starts, not the token the rejected call was sent with.
C24_RenewalCarriesStoredToken ==
  [][\A c \in CallIds :
       StartsRenewal(c) => /\ lsToken # 0
                           /\ calls'[c].rhdr = lsToken
                           /\ lsToken' = lsToken]_vars

\* A renewal is outstanding for a call that went out with another token than
\* the one the renewal request presents: the store was updated in between.
C24_Witness ==
  \E c \in CallIds : /\ calls[c].st = "driving"
                     /\ calls[c].hdr # 0
                     /\ calls[c].rhdr # calls[c].hdr
                     /\ calls[c].rhdr = lsToken

\* C25: when a not-yet-retried call receives 401 while no token is stored, no
\* renewal request is issued and the call is rejected immediately, without
\* waiting on any further network event.
C25_NoTokenRejectsAtOnce ==
  [][\A c \in CallIds :
       (Got401(c) /\ calls[c].icpt /\ ~calls[c].retry /\ lsToken = 0) =>
          /\ calls'[c].st = "settling"
          /\ micro'[Len(micro')] = Settle(c, "eNoToken")
          /\ {d \in CallIds : calls'[d].st = "driving"} = Driving]_vars

\* C26: every call that receives 401 and waits for a renewal, whether it
\* drives the renewal or is queued, is marked retried (so that it is replayed
\* at most once).
C26_WaitingCallMarked ==
  [][\A c \in CallIds :
       (calls[c].st = "sent" /\ calls'[c].st \in {"queued", "driving"}) =>
          calls'[c].retry]_vars

\* Call c, already replayed by the renewal it drove, receives 401 again.
Double401(c) ==
  /\ calls[c].st = "sent" /\ calls[c].retry
  /\ calls'[c].st = "settling"
  /\ micro' # <<>> /\ micro'[Len(micro')] = Settle(c, "e401")

\* C27: when a call already marked retried receives 401 again, the outcome is
\* that of a renewal failure: the stored token, user and expiry are purged and
\* the session goes to the logged-out view.
C27_Double401Purges ==
  [][\A c \in CallIds :
       Double401(c) => /\ lsToken' = 0 /\ lsUser' = 0 /\ lsExpires' = 0
                       /\ redirecting']_vars

\* Call c is answered in this step with a success or with an error that is
\* not a 401.
AnsweredNot401(c) ==
  \/ ReplyOk(c)
  \/ ReplyError(c, "eNet")
  \/ (c = LoginCall /\ ((\E t \in Tokens : LoginReplyOk(t)) \/ LoginReplyRefused))
  \/ (c = CheckCall /\ \E r \in BOOLEAN : CheckReplyOk(r))

\* C28: a successful response, or an error that is not a 401 (a network
\* failure included), is passed to the caller unchanged and leaves the renewal
\* flag, the waiter queue, the stored credential and the default header
\* unchanged; no renewal is started and the call is not replayed.
C28_PassThrough ==
  [][\A c \in CallIds :
       AnsweredNot401(c) =>
          /\ calls'[c].st = "settling"
          /\ micro' # <<>> /\ micro'[1].t = "settle" /\ micro'[1].c = c
          /\ micro'[1].err \in {"ok", "okFalse", "eNet"}
          /\ UNCHANGED <<isRefreshing, failedQueue, storage, authHeader>>
          /\ {d \in CallIds : calls'[d].st = "driving"} = Driving]_vars

\* A call sent through the interceptor has just failed without a 401 and its
\* error is on its way to the caller.
C28_Witness ==
  /\ micro # <<>> /\ Head(micro).t = "settle" /\ Head(micro).err = "eNet"
  /\ calls[Head(micro).c].icpt /\ ~calls[Head(micro).c].retry
  /\ lsToken # 0

\* C29: when a monitor check is answered 'still valid' (success without
\* refreshed) only the stored expiry changes: the stored token, the stored
\* user, the default Authorization header and the session's user stay.
C29_StillValidWritesExpiryOnly ==
  [][(CheckConfirmed /\ micro' = Tail(micro)) =>
        /\ lsExpires' = Head(micro).tok
        /\ UNCHANGED <<lsToken, lsUser, authHeader, user, token>>]_vars

\* A 'still valid' answer is about to be handled in a logged-in session whose
\* stored token is no longer the one the check presented.
C29_Witness ==
  /\ CheckConfirmed
  /\ user # 0 /\ lsUser # 0 /\ authHeader # 0
  /\ lsToken # 0 /\ lsToken # Head(micro).tok

\* The monitor's catch block is about to run: the check's promise rejected.
CheckRejected ==
  /\ micro # <<>> /\ Head(micro).t = "settle"
  /\ Head(micro).c = CheckCall /\ Head(micro).err # "ok"

\* The renewal that the monitor's check drives fails in this step.
CheckRenewalFails ==
  calls[CheckCall].st = "driving" /\ calls'[CheckCall].st = "settling"

SanctionedTokenWrite ==
  \/ isRefreshing
  \/ (LoginAnswered /\ micro' = Tail(micro))
  \/ LogoutCompletes

C32_ActivityDoesNotGateChecks ==
  [][(ColdStartEffect /\ lsToken # 0 /\ lsUser # 0 /\ token # 0) =>
        /\ timers'[tokenCheckInterval'].armed
        /\ timers'[tokenCheckInterval'].token = token]_vars

\* C33: shouldPreventExpiration returns true exactly when isBusy (isInTask)
\* is true or the time since the last observed interaction is below the five
\* minute window, for every combination of isBusy and elapsed time on the
\* bounded clock; isActive being false does not by itself make it false.
C33_PreventIffBusyOrRecent ==
  [][ShouldPreventCalled =>
        ((prevent' = "yes") <=> (isInTask \/ now - lastActivity < FiveMinutes))]_vars

\* The tracker answered yes for a busy user whose isActive flag had been
\* dropped after more than ten minutes without interaction.
C33_Witness ==
  /\ prevent = "yes" /\ ~trackerActive /\ isInTask
  /\ now - lastActivity > TenMinutes

\* A query execution is running: handleQuerySubmit has started and has not
\* reached the end of its finally block.
QueryRunning == queryPc.pc # "idle"

\* C34 as stated: isBusy is true exactly while a query execution is in
\* flight, with busyKind none whenever it is false.
C34_BusyIffQueryRunning ==
  /\ isInTask <=> QueryRunning
  /\ isInTask <=> (taskType = "query_execution")

\* C34 amended: isBusy is true exactly while a query execution started by
\* the mounted MainApp is in flight, with busyKind none whenever it is false.
C34_BusyIffMountedQueryRunning ==
  /\ isInTask <=> (QueryRunning /\ queryPc.mounted)
  /\ isInTask <=> (taskType = "query_execution")

\* handleQuerySubmit is about to run its catch and finally: POST /evaluate
\* failed while the tracker says busy.
C34_Witness ==
  /\ isInTask /\ queryPc.pc = "evaluate" /\ queryPc.mounted
  /\ micro # <<>> /\ Head(micro).t = "settle" /\ Head(micro).c = queryPc.c
  /\ Head(micro).err # "ok"

\* C35: once logout has cleared local state the stored token stays absent
\* until the next successful login or register, even when a renewal request
\* or a monitor check that was in flight at logout time is answered
\* successfully afterwards.
C35_TokenStaysAbsentAfterLogout ==
  [][(user = 0 /\ lsToken = 0 /\ lsToken' # 0) =>
        (LoginAnswered /\ micro' = Tail(micro))]_vars

\* No login, register, logout, renewal, monitor check or other call is
\* mid-flight, and the page is neither loading nor about to be left.
Quiet ==
  /\ micro = <<>>
  /\ \A c \in CallIds : calls[c].st = "idle"
  /\ loginPc.pc = "idle" /\ logoutPc.pc = "idle"
  /\ ~isRefreshing /\ ~loading /\ ~redirecting

\* C36: whenever no login, register, logout, renewal or monitor check is
\* mid-flight the three copies of the token agree: the token of the session,
\* the stored token and the token of the default Authorization header are
\* the same token or all absent.
C36_TokenCopiesAgree ==
  Quiet => (token = lsToken /\ lsToken = authHeader)

\* C37: the stored expiry is always the expiry the backend issued for the
\* stored token: no interleaving of a monitor check sent under one token with
\* a renewal or login that installs another leaves the store holding the new
\* token together with the expiry reported for the old one.
C37_ExpiryBelongsToStoredToken ==
  lsToken # 0 => lsExpires = lsToken

\* The monitor timers that are armed: those some handle refers to and those
\* no handle refers to any more.
ArmedTimers == {i \in TimerIds : timers[i].armed}

\* C38: at most one monitor timer is armed at any time: every start of the
\* monitor cancels the timer armed by the previous start.
C38_AtMostOneTimer ==
  Cardinality(ArmedTimers) + Cardinality(leaked) <= 1

\* What a response handler after the first is handed: the rejection item i
\* of the microtask queue.  It acts on it (queues the call or starts a
\* renewal) when the error is a 401 whose config is not marked _retry
\* (axiosInterceptors.ts 42); the error a renewal failed with carries the
\* config of POST /refresh, which is never marked.
LaterHandlerActs(i) ==
  /\ micro[i].t \in {"settle", "reject"}
  /\ calls[micro[i].c].chain > 1
  /\ micro[i].err = "e401"
  /\ (micro[i].t = "reject" \/ ~calls[micro[i].c].retry)

\* Every outcome on its way to a caller passes the handlers after the first
\* unchanged.
LaterHandlersPass == \A i \in DOMAIN micro : ~LaterHandlerActs(i)

\* C39: installing the interceptors more than once does not change what is
\* observed: for the calls sent through k > 1 installations at most one
\* renewal request is outstanding, each call is replayed at most once, and
\* the handlers after the first pass every outcome on as they got it.
C39_InstallationsNeutral ==
  /\ LaterHandlersPass
  /\ Cardinality({c \in CallIds : calls[c].st = "driving"}) <= 1
  /\ \A c \in CallIds : calls[c].chain > 1 => calls[c].replays <= 1

\* The step in which login() or register() returns to its caller.
LoginEnds ==
  \/ LoginFailed
  \/ LoginActivityRecorded
  \/ (LoginSucceeded /\ loginPc.op = "register")

\* C40: every login or register ends with loading false in exactly one of
\* two outcomes: the credential is stored and the session's user is set, or
\* the error flag is set and the stored credential is as it was; a reply
\* with success = false does not end without user and without error.
C40_LoginEndsInOneOfTwo ==
  [][LoginEnds =>
       /\ ~loading'
       /\ (user' # 0 /\ lsToken' # 0 /\ lsUser' # 0)
            # (error' /\ UNCHANGED <<lsToken, lsUser, lsExpires>>)]_vars

====
